---- MODULE Spec2Model ----
(***************************************************************************)
(* Grid layout selection, pagination and the shared resize observer of the *)
(* egress template.                                                        *)
(*                                                                         *)
(*   - useGridLayout, useSize, useResizeObserver, createResizeObserver and *)
(*     CUSTOM_GRID_LAYOUTS are translated from src/unnamed/part_000.       *)
(*   - selectGridLayout and usePagination are imported by the repository   *)
(*     from @livekit/components-core / @livekit/components-react and are   *)
(*     not part of the sources; they are modelled from sections 4.2 and    *)
(*     4.3 of the specification.                                           *)
(***************************************************************************)
EXTENDS Integers, Sequences, FiniteSets, TLC

VARIABLES
    \* ---- GridLayout component (part_000 lines 305-325) ----
    phase,          \* "input": props/state set, render pending; "rendered"
    gridEl,         \* the container ref is set when the effects run
    size,           \* useSize state: [width, height]
    tracks,         \* the tracks prop, a sequence of track references
    currentPage,    \* usePagination state
    layout,         \* result of useGridLayout in the last render
    pagination,     \* result of usePagination in the last render
    style,          \* --lk-col-count / --lk-row-count on the container
    visible,        \* tracks handed to TrackLoop in the last render
    pages,          \* history: the pages shown so far while walking page by page
    lastOp,         \* history: the last operation of the component
    pageBefore,     \* history: currentPage before the last operation
    \* ---- shared resize observer (part_000 lines 12-94) ----
    resizeObserverCreated, \* _resizeObserver is set
    ticking,        \* createResizeObserver: let ticking
    allEntries,     \* createResizeObserver: let allEntries
    callbacks,      \* createResizeObserver: Map target -> callbacks
    observed,       \* targets the underlying ResizeObserver observes
    rafPending,     \* animation-frame callbacks requested and not yet run
    mounted,        \* per consumer: the component using the hook is mounted
    sub,            \* per consumer: the target its effect subscribed to, 0 = none
    didUnsubscribe, \* per consumer: didUnsubscribe of its latest effect closure
    unsubFrom,      \* history: the target the consumer's last cleanup unsubscribed from
    consumerSize,   \* per consumer: useSize state (a rect id, 0 = {0,0})
    calls,          \* history: per consumer, invocations of its cb in the last flush
    delivered,      \* history: per target, rect handed to subscribers in the last flush
    latest,         \* history: per target, rect of the newest entry queued at the last flush
    queued,         \* history: per target, number of entries queued at the last flush
    roOp            \* history: last operation on the observer

\* The composite template (Room.tsx).
VARIABLES
    screenShareTracks,  \* screen-share track references, in the order of useTracks
    focusTrack,         \* usePinnedTracks(layoutContext)[0], NoTrack when nothing is pinned
    lastAutoFocusedScreenShareTrack,   \* the ref of that name, NoTrack for null
    effectPending,      \* a render has happened whose effect has not run yet
    pinBy,              \* history: who set the current pin: "none", "auto", "explicit"
    dispatched,         \* history: message dispatched by the last run of the effect
    pinByBefore         \* history: pinBy when the last run of the effect started

\* The recording effect of the egress composite template (GridLayout.tsx).
VARIABLES
    tracksOf,           \* per remote participant: p.tracks.size
    subscribedOf,       \* per remote participant: how many of its tracks are subscribed
    setupDone,          \* the effect on [room] has run
    onceListener,       \* the room.once(TrackSubscribed) listener is registered
    startRecordingCalls, \* calls of EgressHelper.startRecording
    startedBy,          \* history: "none", "setup" or "TrackSubscribed"
    hadTrack,           \* history: some participant had a track when recording started
    subscribedEvents    \* history: TrackSubscribed events emitted since the setup

\* RenderRoomInfo (Room.tsx) applied to a track list.
VARIABLES
    infoPhase,          \* "input": the list is given; "rendered": roomInfo is its result
    allTracks,          \* the argument of RenderRoomInfo
    roomInfo            \* the RoomInfo it returned

gridVars == <<phase, gridEl, size, tracks, currentPage, layout, pagination, style, visible, pages,
              lastOp, pageBefore>>
roVars   == <<resizeObserverCreated, ticking, allEntries, callbacks, observed, rafPending,
              mounted, sub, didUnsubscribe, unsubFrom, consumerSize, calls, delivered, latest, queued,
              roOp>>
pinVars  == <<screenShareTracks, focusTrack, lastAutoFocusedScreenShareTrack, effectPending,
              pinBy, dispatched, pinByBefore>>
recVars  == <<tracksOf, subscribedOf, setupDone, onceListener, startRecordingCalls, startedBy,
              hadTrack, subscribedEvents>>
infoVars == <<infoPhase, allTracks, roomInfo>>
vars     == <<gridVars, roVars, pinVars, recVars, infoVars>>

----------------------------------------------------------------------------
(* Bounds *)

MaxTracks == 30          \* track counts tried against layout selection
MaxLiveTracks == 6       \* track counts of the running component
MaxListLen == 4          \* length of the track lists given to the paginator
MaxPerPage == 4          \* maxTiles values given to the paginator
MaxFairQueue == 2        \* the same, in the specification with fairness
MaxInfoLen == 3          \* tracks in the list given to RenderRoomInfo
MaxPubs == 2             \* tracks published by one remote participant
MaxEvents == 3           \* TrackSubscribed events followed after the setup
MaxShares == 3           \* screen shares published at the same time
MaxQueue == 3            \* resize entries queued between two frames

\* viewport widths around every minWidth threshold of the catalog
Widths == {0, 500, 539, 540, 559, 560, 699, 700, 799, 800, 959, 960, 1099, 1100, 1200}
Heights == {0, 400, 800}
LiveWidths == {0, 500, 700, 1200}
LiveHeights == {0, 800}
TrackIds == {1, 2, 3}
Consumers == {1, 2}      \* hook instances using the shared observer
Targets == {1, 2}        \* observed elements; 0 stands for an unset ref
Rects == {1, 2}          \* content rects; 0 stands for {width: 0, height: 0}

Range(f) == {f[i] : i \in DOMAIN f}
Min(a, b) == IF a <= b THEN a ELSE b
Max(a, b) == IF a >= b THEN a ELSE b
CeilDiv(a, b) == (a + b - 1) \div b

----------------------------------------------------------------------------
(* Layout catalog *)

GridLayoutEntry(c, r, n, lo, hi, w, h) ==
    [columns |-> c, rows |-> r, name |-> n, minTiles |-> lo, maxTiles |-> hi,
     minWidth |-> w, minHeight |-> h]

CUSTOM_GRID_LAYOUTS ==
    << GridLayoutEntry(1, 1, "1x1", 1, 1, 0, 0),
       GridLayoutEntry(1, 2, "1x2", 2, 2, 0, 0),
       GridLayoutEntry(2, 1, "2x1", 2, 2, 800, 0),
       GridLayoutEntry(3, 1, "3x1", 3, 3, 540, 0),
       GridLayoutEntry(2, 2, "2x2", 4, 4, 560, 0),
       GridLayoutEntry(3, 2, "3x2", 5, 6, 700, 0),
       GridLayoutEntry(4, 2, "4x2", 7, 8, 700, 0),
       GridLayoutEntry(3, 3, "3x3", 9, 9, 700, 0),
       GridLayoutEntry(4, 3, "4x3", 10, 12, 960, 0),
       GridLayoutEntry(5, 3, "5x3", 13, 15, 960, 0),
       GridLayoutEntry(4, 4, "4x4", 16, 16, 960, 0),
       GridLayoutEntry(5, 4, "5x4", 17, 20, 1100, 0),
       GridLayoutEntry(5, 5, "5x5", 21, 25, 1100, 0) >>

\* GridLayout.tsx: a GridLayoutDefinition of the second catalog has no tile range
GridLayoutDefinition(c, r, o, w) ==
    [columns |-> c, rows |-> r, orientation |-> o, minWidth |-> w]

\* a plausible slip: the 3x3 entry listed before the 2x2 entry
JKTP_GRID_LAYOUTS_unordered ==
    << GridLayoutDefinition(1, 1, "any", 0),
       GridLayoutDefinition(1, 2, "portrait", 0),
       GridLayoutDefinition(2, 1, "landscape", 0),
       GridLayoutDefinition(3, 3, "any", 700),
       GridLayoutDefinition(2, 2, "any", 560),
       GridLayoutDefinition(4, 4, "any", 960),
       GridLayoutDefinition(5, 5, "any", 1100),
       GridLayoutDefinition(6, 6, "any", 1200) >>

\* GridLayout.tsx lines 25-65
JKTP_GRID_LAYOUTS ==
    << GridLayoutDefinition(1, 1, "any", 0),
       GridLayoutDefinition(1, 2, "portrait", 0),
       GridLayoutDefinition(2, 1, "landscape", 0),
       GridLayoutDefinition(2, 2, "any", 560),
       GridLayoutDefinition(3, 3, "any", 700),
       GridLayoutDefinition(4, 4, "any", 960),
       GridLayoutDefinition(5, 5, "any", 1100),
       GridLayoutDefinition(6, 6, "any", 1200) >>

\* indices of the entries whose size thresholds the viewport meets (spec 4.2 step 1)
Qualifying(layouts, width, height) ==
    {i \in DOMAIN layouts : layouts[i].minWidth <= width /\ layouts[i].minHeight <= height}

\* a plausible slip: when no qualifying entry holds all tiles the first entry is returned
selectGridLayout_firstOnOverflow(layouts, tileCount, width, height) ==
    LET Q == Qualifying(layouts, width, height)
        Fit == {i \in Q : layouts[i].maxTiles >= tileCount}
        smallest == CHOOSE i \in Fit : \A j \in Fit :
                        \/ layouts[i].maxTiles < layouts[j].maxTiles
                        \/ layouts[i].maxTiles = layouts[j].maxTiles /\ i <= j
    IN  IF Fit # {} THEN layouts[smallest] ELSE layouts[1]

\* spec 4.2: smallest qualifying capacity >= tileCount, else the largest qualifying
\* capacity, else the first entry; equal capacities go to the earlier entry
selectGridLayout(layouts, tileCount, width, height) ==
    LET Q == Qualifying(layouts, width, height)
        Fit == {i \in Q : layouts[i].maxTiles >= tileCount}
        smallest == CHOOSE i \in Fit : \A j \in Fit :
                        \/ layouts[i].maxTiles < layouts[j].maxTiles
                        \/ layouts[i].maxTiles = layouts[j].maxTiles /\ i <= j
        largest == CHOOSE i \in Q : \A j \in Q :
                        \/ layouts[i].maxTiles > layouts[j].maxTiles
                        \/ layouts[i].maxTiles = layouts[j].maxTiles /\ i <= j
    IN  IF Fit # {} THEN layouts[smallest]
        ELSE IF Q # {} THEN layouts[largest]
        ELSE layouts[1]

\* a plausible slip in the guard of useGridLayout: the catalog is always consulted
useGridLayout_noGuard(width, height, trackCount) ==
    selectGridLayout(CUSTOM_GRID_LAYOUTS, trackCount, width, height)

\* a plausible slip: the branches of the conditional are swapped
useGridLayout_swapped(width, height, trackCount) ==
    IF width > 0 /\ height > 0
    THEN CUSTOM_GRID_LAYOUTS[1]
    ELSE selectGridLayout(CUSTOM_GRID_LAYOUTS, trackCount, width, height)

\* part_000 lines 257-260
useGridLayout(width, height, trackCount) ==
    IF width > 0 /\ height > 0
    THEN selectGridLayout(CUSTOM_GRID_LAYOUTS, trackCount, width, height)
    ELSE CUSTOM_GRID_LAYOUTS[1]

\* part_000 lines 264-265: the column and row counts written to the container
layoutEffect(l) == [colCount |-> l.columns, rowCount |-> l.rows]

\* a plausible slip: the style is written without looking at the ref
useGridLayoutEffect_noGuard(el, l, old) == layoutEffect(l)

\* part_000 lines 262-267: if (gridElement.current && layout) publish the counts
useGridLayoutEffect(el, l, old) == IF el THEN layoutEffect(l) ELSE old

----------------------------------------------------------------------------
(* Paginator (spec 4.3) *)

totalPageCountOf(maxTiles, list) == Max(CeilDiv(Len(list), maxTiles), 1)

\* a plausible slip: the page is kept as it was
clampPage_none(page, total) == page

clampPage(page, total) == Max(0, Min(page, total - 1))

usePagination(maxTiles, list, page) ==
    LET total == totalPageCountOf(maxTiles, list)
        cur == clampPage(page, total)
    IN  [totalPageCount |-> total,
         currentPage |-> cur,
         tracks |-> SubSeq(list, cur * maxTiles + 1, Min(Len(list), (cur + 1) * maxTiles))]

nextPageOf(page, total) == IF page >= total - 1 THEN page ELSE page + 1
prevPageOf(page) == IF page <= 0 THEN page ELSE page - 1

----------------------------------------------------------------------------
(* Shared resize observer *)

MapGet(m, k) == IF k \in DOMAIN m THEN m[k] ELSE <<>>
MapSet(m, k, v) == [x \in (DOMAIN m) \cup {k} |-> IF x = k THEN v ELSE m[x]]
MapDelete(m, k) == [x \in (DOMAIN m) \ {k} |-> m[x]]

\* Array.prototype.indexOf, 1-based; 0 when absent
indexOf(cbs, cb) ==
    IF \E i \in 1..Len(cbs) : cbs[i] = cb
    THEN CHOOSE i \in 1..Len(cbs) : cbs[i] = cb /\ \A j \in 1..(i - 1) : cbs[j] # cb
    ELSE 0

splice(cbs, i) == SubSeq(cbs, 1, i - 1) \o SubSeq(cbs, i + 1, Len(cbs))

\* part_000 lines 71-76, on the registry [observed, callbacks]
subscribe(reg, target, callback) ==
    [observed |-> reg.observed \cup {target},
     callbacks |-> MapSet(reg.callbacks, target,
                          Append(MapGet(reg.callbacks, target), callback))]

\* a plausible slip: the last unsubscribe forgets observer.unobserve(target)
unsubscribe_noUnobserve(reg, target, callback) ==
    LET cbs == MapGet(reg.callbacks, target)
        cbIndex == indexOf(cbs, callback)
    IN  IF Len(cbs) = 1
        THEN [observed |-> reg.observed, callbacks |-> MapDelete(reg.callbacks, target)]
        ELSE [observed |-> reg.observed,
              callbacks |-> MapSet(reg.callbacks, target,
                                   IF cbIndex # 0 THEN splice(cbs, cbIndex) ELSE cbs)]

\* a plausible slip: unsubscribe stops observing but leaves the callback registered
unsubscribe_keepsCallback(reg, target, callback) ==
    [observed |-> reg.observed \ {target}, callbacks |-> reg.callbacks]

\* part_000 lines 77-87
unsubscribe(reg, target, callback) ==
    LET cbs == MapGet(reg.callbacks, target)
        cbIndex == indexOf(cbs, callback)
    IN  IF Len(cbs) = 1
        THEN [observed |-> reg.observed \ {target},
              callbacks |-> MapDelete(reg.callbacks, target)]
        ELSE [observed |-> reg.observed,
              callbacks |-> MapSet(reg.callbacks, target,
                                   IF cbIndex # 0 THEN splice(cbs, cbIndex) ELSE cbs)]

\* a plausible slip: the effect subscribes although the ref is unset
useResizeObserverEffect_noGuard(reg, target, callback) == subscribe(reg, target, callback)

\* part_000 lines 22-30: const targetEl = target.current; if (!targetEl) return; subscribe
useResizeObserverEffect(reg, target, callback) ==
    IF target = 0 THEN reg ELSE subscribe(reg, target, callback)

\* a plausible slip: the test of the pending flag is inverted
shouldRequestFrame_inverted(tick) == tick

\* a plausible slip: a frame is requested for every notification
shouldRequestFrame_always(tick) == TRUE

\* part_000 line 53: if (!ticking)
shouldRequestFrame(tick) == ~tick

\* a plausible slip: the triggered set is not consulted
alreadyTriggered_never(triggered, target) == FALSE

\* part_000 line 57: if (triggered.has(allEntries[i].target)) continue
alreadyTriggered(triggered, target) == target \in triggered

\* part_000 lines 25-28 and 111: cb of every subscriber in turn; a live cb calls setSize
RECURSIVE invokeAll(_, _, _, _)
invokeAll(cbs, entry, unsub, acc) ==
    IF cbs = <<>> THEN acc
    ELSE LET c == Head(cbs)
             next == [sizes |-> IF unsub[c] THEN acc.sizes
                                ELSE [acc.sizes EXCEPT ![c] = entry.rect],
                      calls |-> [acc.calls EXCEPT ![c] = @ + 1]]
         IN  invokeAll(Tail(cbs), entry, unsub, next)

\* part_000 lines 55-61: the loop of the animation-frame callback
RECURSIVE flushLoop(_, _, _, _, _, _)
flushLoop(entries, i, triggered, cbMap, unsub, acc) ==
    IF i > Len(entries) THEN acc
    ELSE LET e == entries[i]
         IN  IF alreadyTriggered(triggered, e.target)
             THEN flushLoop(entries, i + 1, triggered, cbMap, unsub, acc)
             ELSE LET cbs == MapGet(cbMap, e.target)
                      r == invokeAll(cbs, e, unsub, [sizes |-> acc.sizes, calls |-> acc.calls])
                      got == IF cbs = <<>> THEN acc.delivered
                             ELSE [acc.delivered EXCEPT ![e.target] = e.rect]
                  IN  flushLoop(entries, i + 1, triggered \cup {e.target}, cbMap, unsub,
                                [sizes |-> r.sizes, calls |-> r.calls, delivered |-> got])

\* history: rect of the newest entry for the target in the queue, 0 when there is none
RECURSIVE latestOf(_, _)
latestOf(entries, target) ==
    IF entries = <<>> THEN 0
    ELSE LET rest == latestOf(Tail(entries), target)
         IN  IF rest # 0 THEN rest
             ELSE IF Head(entries).target = target THEN Head(entries).rect ELSE 0

countOf(entries, target) == Cardinality({i \in 1..Len(entries) : entries[i].target = target})

\* the entries of one ResizeObserver notification: one per resized target
RECURSIVE batchOf(_, _)
batchOf(S, rects) ==
    IF S = {} THEN <<>>
    ELSE LET t == CHOOSE x \in S : \A y \in S : x <= y
         IN  <<[target |-> t, rect |-> rects[t]]>> \o batchOf(S \ {t}, rects)

----------------------------------------------------------------------------
(* GridLayout component *)

NoLayout == GridLayoutEntry(0, 0, "none", 0, 0, 0, 0)
NoPagination == [totalPageCount |-> 0, currentPage |-> 0, tracks |-> <<>>]
NoStyle == [colCount |-> 0, rowCount |-> 0]

TrackList(n) == [i \in 1..n |-> i]

\* all sequences over S of length at most n
RECURSIVE SeqsUpTo(_, _)
SeqsUpTo(S, n) ==
    IF n = 0 THEN {<<>>}
    ELSE LET shorter == SeqsUpTo(S, n - 1)
         IN  shorter \cup {Append(q, x) : q \in {r \in shorter : Len(r) = n - 1}, x \in S}

RECURSIVE Flatten(_)
Flatten(ss) == IF ss = <<>> THEN <<>> ELSE Head(ss) \o Flatten(Tail(ss))

\* a plausible slip at the call site: the column count is passed as the page size
GridLayoutPagination_columns(l, list, page) == usePagination(l.columns, list, page)

\* part_000 line 313 (GridLayout.tsx line 92): usePagination(layout.maxTiles, tracks)
GridLayoutPagination(l, list, page) == usePagination(l.maxTiles, list, page)

\* a plausible slip: the two swipe handlers are exchanged
onLeftSwipe_swapped(page, total) == prevPageOf(page)

\* part_000 line 316 (GridLayout.tsx line 95): onLeftSwipe: pagination.nextPage
onLeftSwipe(page, total) == nextPageOf(page, total)

\* part_000 line 317 (GridLayout.tsx line 96): onRightSwipe: pagination.prevPage
onRightSwipe(page, total) == prevPageOf(page)

\* a plausible slip: the whole track list is rendered instead of the page
TrackLoopTracks_all(p, list) == list

\* part_000 line 322 (GridLayout.tsx line 101): <TrackLoop tracks={pagination.tracks}>
TrackLoopTracks(p, list) == p.tracks

\* One render of GridLayout with the layout `l` chosen for it, followed by its effects.
RenderWith(l, sz, list, page, op, shown) ==
    LET p == GridLayoutPagination(l, list, page)
    IN  /\ phase' = "rendered"
        /\ size' = sz
        /\ tracks' = list
        /\ layout' = l
        /\ pagination' = p
        /\ currentPage' = p.currentPage
        /\ gridEl' = gridEl
        /\ style' = useGridLayoutEffect(gridEl, l, style)
        /\ visible' = TrackLoopTracks(p, list)
        /\ pages' = Append(shown, TrackLoopTracks(p, list))
        /\ lastOp' = op
        /\ pageBefore' = currentPage

\* part_000 lines 305-325: useGridLayout(gridEl, tracks.length), then usePagination
Render(sz, list, page, op) ==
    RenderWith(useGridLayout(sz.width, sz.height, Len(list)), sz, list, page, op, <<>>)

\* a track reference as far as the pin logic reads it; NoTrack stands for null/undefined
TrackRef(source, trackSid, publication) ==
    [source |-> source, trackSid |-> trackSid, publication |-> publication]
NoTrack == TrackRef("none", 0, FALSE)

NoRoomInfo ==
    [visibleTracks |-> <<>>, totalParticipants |-> 0, videoTracks |-> <<>>,
     screenShareTracks |-> <<>>]

InfoIdle ==
    /\ infoPhase = "idle"
    /\ allTracks = <<>>
    /\ roomInfo = NoRoomInfo

Remotes == {1, 2}

RecIdle ==
    /\ tracksOf = [p \in Remotes |-> 0]
    /\ subscribedOf = [p \in Remotes |-> 0]
    /\ setupDone = FALSE
    /\ onceListener = FALSE
    /\ startRecordingCalls = 0
    /\ startedBy = "none"
    /\ hadTrack = FALSE
    /\ subscribedEvents = 0

PinIdle ==
    /\ screenShareTracks = <<>>
    /\ focusTrack = NoTrack
    /\ lastAutoFocusedScreenShareTrack = NoTrack
    /\ effectPending = FALSE
    /\ pinBy = "none"
    /\ dispatched = "none"
    /\ pinByBefore = "none"

RoIdle ==
    /\ resizeObserverCreated = FALSE
    /\ ticking = FALSE
    /\ allEntries = <<>>
    /\ callbacks = << >>
    /\ observed = {}
    /\ rafPending = 0
    /\ mounted = [c \in Consumers |-> FALSE]
    /\ sub = [c \in Consumers |-> 0]
    /\ didUnsubscribe = [c \in Consumers |-> FALSE]
    /\ unsubFrom = [c \in Consumers |-> 0]
    /\ consumerSize = [c \in Consumers |-> 0]
    /\ calls = [c \in Consumers |-> 0]
    /\ delivered = [t \in Targets |-> 0]
    /\ latest = [t \in Targets |-> 0]
    /\ queued = [t \in Targets |-> 0]
    /\ roOp = "none"

GridInput(sz, list, l) ==
    /\ phase = "input"
    /\ gridEl = TRUE
    /\ size = sz
    /\ tracks = list
    /\ currentPage = 0
    /\ layout = l
    /\ pagination = NoPagination
    /\ style = NoStyle
    /\ visible = <<>>
    /\ pages = <<>>
    /\ lastOp = "none"
    /\ pageBefore = 0

(* ---- layout selection applied to every viewport and track count ---- *)

InitSelect ==
    /\ \E w \in Widths, h \in Heights, n \in 0..MaxTracks :
           GridInput([width |-> w, height |-> h], TrackList(n), NoLayout)
    /\ RoIdle
    /\ PinIdle
    /\ RecIdle
    /\ InfoIdle

render ==
    /\ phase = "input"
    /\ Render(size, tracks, currentPage, "render")
    /\ UNCHANGED <<roVars, pinVars, recVars, infoVars>>

\* one more track arrives while the viewport stays as it is
addTrack ==
    /\ phase = "rendered"
    /\ Len(tracks) < MaxTracks
    /\ Render(size, TrackList(Len(tracks) + 1), currentPage, "addTrack")
    /\ UNCHANGED <<roVars, pinVars, recVars, infoVars>>

NextSelect == render \/ addTrack

SpecSelect == InitSelect /\ [][NextSelect]_vars

(* ---- the paginator applied to every track list and page size ---- *)

InitPaginate ==
    /\ \E list \in SeqsUpTo(TrackIds, MaxListLen), m \in 1..MaxPerPage :
           GridInput([width |-> 0, height |-> 0], list,
                     GridLayoutEntry(1, m, "custom", 1, m, 0, 0))
    /\ RoIdle
    /\ PinIdle
    /\ RecIdle
    /\ InfoIdle

paginate ==
    /\ phase = "input"
    /\ RenderWith(layout, size, tracks, currentPage, "render", <<>>)
    /\ UNCHANGED <<roVars, pinVars, recVars, infoVars>>

walkNextPage ==
    /\ phase = "rendered"
    /\ currentPage < pagination.totalPageCount - 1
    /\ RenderWith(layout, size, tracks,
                  onLeftSwipe(currentPage, pagination.totalPageCount), "leftSwipe", pages)
    /\ UNCHANGED <<roVars, pinVars, recVars, infoVars>>

NextPaginate == paginate \/ walkNextPage

SpecPaginate == InitPaginate /\ [][NextPaginate]_vars

(* ---- the running component ---- *)

\* the hook instance of the GridLayout component and the element its ref points at
GridConsumer == 1
GridTarget == 1

\* the first render of GridLayout and its layout effects; the container may be unset
Init ==
    \E n \in 0..MaxLiveTracks, el \in BOOLEAN :
        LET sz == [width |-> 0, height |-> 0]
            list == TrackList(n)
            l == useGridLayout(0, 0, n)
            p == GridLayoutPagination(l, list, 0)
            reg == useResizeObserverEffect([observed |-> {}, callbacks |-> << >>],
                                           IF el THEN GridTarget ELSE 0, GridConsumer)
        IN  /\ phase = "rendered"
            /\ gridEl = el
            /\ size = sz
            /\ tracks = list
            /\ currentPage = p.currentPage
            /\ layout = l
            /\ pagination = p
            /\ style = useGridLayoutEffect(el, l, NoStyle)
            /\ visible = TrackLoopTracks(p, list)
            /\ pages = <<TrackLoopTracks(p, list)>>
            /\ lastOp = "mount"
            /\ pageBefore = 0
            /\ resizeObserverCreated = TRUE
            /\ ticking = FALSE
            /\ allEntries = <<>>
            /\ callbacks = reg.callbacks
            /\ observed = reg.observed
            /\ rafPending = 0
            /\ mounted = [c \in Consumers |-> c = GridConsumer]
            /\ sub = [c \in Consumers |-> IF c = GridConsumer /\ el THEN GridTarget ELSE 0]
            /\ didUnsubscribe = [c \in Consumers |-> FALSE]
            /\ unsubFrom = [c \in Consumers |-> 0]
            /\ consumerSize = [c \in Consumers |-> 0]
            /\ calls = [c \in Consumers |-> 0]
            /\ delivered = [t \in Targets |-> 0]
            /\ latest = [t \in Targets |-> 0]
            /\ queued = [t \in Targets |-> 0]
            /\ roOp = "mount"
            /\ PinIdle
            /\ RecIdle
            /\ InfoIdle

\* part_000 lines 106 and 111: setSize with the measured box, then the re-render
setSize ==
    /\ gridEl
    /\ GridConsumer \in Range(MapGet(callbacks, GridTarget))
    /\ \E w \in LiveWidths, h \in LiveHeights :
           Render([width |-> w, height |-> h], tracks, currentPage, "setSize")
    /\ UNCHANGED <<roVars, pinVars, recVars, infoVars>>

\* GridLayout.tsx line 227: the parent hands over a new track list
setDisplayedTracks ==
    /\ \E n \in 0..MaxLiveTracks : Render(size, TrackList(n), currentPage, "setDisplayedTracks")
    /\ UNCHANGED <<roVars, pinVars, recVars, infoVars>>

\* a swipe to the left on the grid
leftSwipe ==
    /\ Render(size, tracks, onLeftSwipe(currentPage, pagination.totalPageCount), "leftSwipe")
    /\ UNCHANGED <<roVars, pinVars, recVars, infoVars>>

\* a swipe to the right on the grid
rightSwipe ==
    /\ Render(size, tracks, onRightSwipe(currentPage, pagination.totalPageCount), "rightSwipe")
    /\ UNCHANGED <<roVars, pinVars, recVars, infoVars>>

Next == setSize \/ setDisplayedTracks \/ leftSwipe \/ rightSwipe

Spec == Init /\ [][Next]_vars

(* ---- consumers of the shared observer ---- *)

\* the history of the last flush is kept only until the next operation
forgetFlush ==
    /\ calls' = [c \in Consumers |-> 0]
    /\ delivered' = [t \in Targets |-> 0]
    /\ latest' = [t \in Targets |-> 0]
    /\ queued' = [t \in Targets |-> 0]

registry == [observed |-> observed, callbacks |-> callbacks]

\* part_000 lines 19-36 and 103-108: the layout effects of a consumer whose ref is `t`
runEffects(c, t, reg, op) ==
    LET after == useResizeObserverEffect(reg, t, c)
    IN  /\ resizeObserverCreated' = TRUE
        /\ observed' = after.observed
        /\ callbacks' = after.callbacks
        /\ mounted' = [mounted EXCEPT ![c] = TRUE]
        /\ sub' = [sub EXCEPT ![c] = t]
        /\ didUnsubscribe' = [didUnsubscribe EXCEPT ![c] = FALSE]
        /\ unsubFrom' = [unsubFrom EXCEPT ![c] = 0]
        /\ IF t = 0
           THEN consumerSize' = consumerSize
           ELSE \E r \in Rects : consumerSize' = [consumerSize EXCEPT ![c] = r]
        /\ roOp' = op
        /\ forgetFlush
        /\ UNCHANGED <<ticking, allEntries, rafPending>>

\* part_000 lines 32-35: the cleanup of a consumer's effect
cleanup(c, reg) == IF sub[c] = 0 THEN reg ELSE unsubscribe(reg, sub[c], c)

\* a component using useSize mounts; its ref holds target t, or nothing (0)
mount ==
    /\ \E c \in Consumers, t \in Targets \cup {0} :
           /\ ~mounted[c]
           /\ runEffects(c, t, registry, "mount")
    /\ UNCHANGED <<gridVars, pinVars, recVars, infoVars>>

\* target.current changed between renders: cleanup, then the effect again
retarget ==
    /\ \E c \in Consumers, t \in Targets \cup {0} :
           /\ mounted[c]
           /\ t # sub[c]
           /\ runEffects(c, t, cleanup(c, registry), "retarget")
    /\ UNCHANGED <<gridVars, pinVars, recVars, infoVars>>

unmount ==
    /\ \E c \in Consumers :
           /\ mounted[c]
           /\ LET after == cleanup(c, registry)
              IN  /\ observed' = after.observed
                  /\ callbacks' = after.callbacks
           /\ mounted' = [mounted EXCEPT ![c] = FALSE]
           /\ didUnsubscribe' = [didUnsubscribe EXCEPT ![c] = (sub[c] # 0)]
           /\ unsubFrom' = [unsubFrom EXCEPT ![c] = sub[c]]
           /\ sub' = [sub EXCEPT ![c] = 0]
           /\ consumerSize' = [consumerSize EXCEPT ![c] = 0]
           /\ roOp' = "unmount"
    /\ forgetFlush
    /\ UNCHANGED <<resizeObserverCreated, ticking, allEntries, rafPending>>
    /\ UNCHANGED <<gridVars, pinVars, recVars, infoVars>>

\* part_000 lines 51-67: the ResizeObserver callback
notifyUpTo(maxLen) ==
    /\ \E S \in (SUBSET observed) \ {{}} : \E rects \in [S -> Rects] :
           /\ Len(allEntries) + Cardinality(S) <= maxLen
           /\ allEntries' = allEntries \o batchOf(S, rects)
    /\ rafPending' = IF shouldRequestFrame(ticking) THEN rafPending + 1 ELSE rafPending
    /\ ticking' = TRUE
    /\ roOp' = "notify"
    /\ forgetFlush
    /\ UNCHANGED <<resizeObserverCreated, callbacks, observed, mounted, sub, didUnsubscribe,
                   unsubFrom,
                   consumerSize>>
    /\ UNCHANGED <<gridVars, pinVars, recVars, infoVars>>

notify == notifyUpTo(MaxQueue)

\* part_000 lines 54-64: the animation-frame callback
flush ==
    /\ rafPending > 0
    /\ LET r == flushLoop(allEntries, 1, {}, callbacks, didUnsubscribe,
                          [sizes |-> consumerSize,
                           calls |-> [c \in Consumers |-> 0],
                           delivered |-> [t \in Targets |-> 0]])
       IN  /\ consumerSize' = r.sizes
           /\ calls' = r.calls
           /\ delivered' = r.delivered
    /\ latest' = [t \in Targets |-> latestOf(allEntries, t)]
    /\ queued' = [t \in Targets |-> countOf(allEntries, t)]
    /\ allEntries' = <<>>
    /\ ticking' = FALSE
    /\ rafPending' = rafPending - 1
    /\ roOp' = "flush"
    /\ UNCHANGED <<resizeObserverCreated, callbacks, observed, mounted, sub, didUnsubscribe,
                   unsubFrom>>
    /\ UNCHANGED <<gridVars, pinVars, recVars, infoVars>>

InitRO ==
    /\ GridInput([width |-> 0, height |-> 0], <<>>, NoLayout)
    /\ RoIdle
    /\ PinIdle
    /\ RecIdle
    /\ InfoIdle

NextRO == mount \/ retarget \/ unmount \/ notify \/ flush

SpecRO == InitRO /\ [][NextRO]_vars

\* the same observer with a shorter queue between two frames
notifyFrame == notifyUpTo(MaxFairQueue)

NextROFair == mount \/ retarget \/ unmount \/ notifyFrame \/ flush

\* every animation frame that was requested eventually runs
SpecROFair == InitRO /\ [][NextROFair]_vars /\ WF_vars(flush)

(* ---- the auto-focus effect of the composite template ---- *)

ShareSids == {1, 2, 3}
CameraTrack == TrackRef("camera", 4, TRUE)

\* the track reference of an entry of screenShareTracks
RefOf(share) == TrackRef("screen_share", share.trackSid, TRUE)

SidsOf(shares) == {shares[i].trackSid : i \in 1..Len(shares)}
InsertAt(seq, i, x) == SubSeq(seq, 1, i) \o <<x>> \o SubSeq(seq, i + 1, Len(seq))
RemoveAt(seq, i) == SubSeq(seq, 1, i - 1) \o SubSeq(seq, i + 1, Len(seq))

\* Room.tsx line 135: screenShareTracks.some(track.publication && isSubscribed)
someSubscribed(shares) == \E i \in 1..Len(shares) : shares[i].isSubscribed

\* a plausible slip: the auto-focused track is taken to be gone on every run
stillPublished_never(shares, last) == FALSE

\* Room.tsx lines 142-146: some screen share has the trackSid of the auto-focused one
stillPublished(shares, last) == \E i \in 1..Len(shares) : shares[i].trackSid = last.trackSid

\* Room.tsx lines 134-150: the two branches on the auto-focus tracker
autoFocus(shares, last, focus) ==
    IF someSubscribed(shares) /\ last = NoTrack
    THEN [msg |-> "set_pin", pin |-> RefOf(shares[1]), last |-> RefOf(shares[1])]
    ELSE IF last # NoTrack /\ ~stillPublished(shares, last)
         THEN [msg |-> "clear_pin", pin |-> NoTrack, last |-> NoTrack]
         ELSE [msg |-> "none", pin |-> focus, last |-> last]

\* Room.tsx lines 151-160: a pinned placeholder is replaced by the visible track of the
\* same participant and source; focus is the focusTrack of the render
updatedFocusTrack(focus, visibleTracks) ==
    IF focus # NoTrack /\ ~focus.publication
       /\ \E tr \in visibleTracks : tr.source = focus.source /\ tr.publication
    THEN CHOOSE tr \in visibleTracks : tr.source = focus.source /\ tr.publication
    ELSE NoTrack

forgetDispatch ==
    /\ dispatched' = "none"
    /\ pinByBefore' = "none"

\* a change of the room or of the pin state renders the template again
rerender ==
    /\ ~effectPending
    /\ effectPending' = TRUE
    /\ forgetDispatch

publishScreenShare ==
    /\ rerender
    /\ Len(screenShareTracks) < MaxShares
    /\ \E sid \in ShareSids \ SidsOf(screenShareTracks), isSub \in BOOLEAN,
          i \in 0..Len(screenShareTracks) :
           screenShareTracks' =
               InsertAt(screenShareTracks, i, [trackSid |-> sid, isSubscribed |-> isSub])
    /\ UNCHANGED <<focusTrack, lastAutoFocusedScreenShareTrack, pinBy>>
    /\ UNCHANGED <<gridVars, roVars, recVars, infoVars>>

unpublishScreenShare ==
    /\ rerender
    /\ \E i \in 1..Len(screenShareTracks) :
           screenShareTracks' = RemoveAt(screenShareTracks, i)
    /\ UNCHANGED <<focusTrack, lastAutoFocusedScreenShareTrack, pinBy>>
    /\ UNCHANGED <<gridVars, roVars, recVars, infoVars>>

subscriptionChanged ==
    /\ rerender
    /\ \E i \in 1..Len(screenShareTracks) :
           screenShareTracks' =
               [screenShareTracks EXCEPT ![i].isSubscribed = ~screenShareTracks[i].isSubscribed]
    /\ UNCHANGED <<focusTrack, lastAutoFocusedScreenShareTrack, pinBy>>
    /\ UNCHANGED <<gridVars, roVars, recVars, infoVars>>

\* a tile below LayoutContextProvider dispatches set_pin for its track
setPin ==
    /\ rerender
    /\ \E ref \in {CameraTrack} \cup {RefOf(screenShareTracks[i]) : i \in 1..Len(screenShareTracks)} :
           /\ ref # focusTrack
           /\ focusTrack' = ref
    /\ pinBy' = "explicit"
    /\ UNCHANGED <<screenShareTracks, lastAutoFocusedScreenShareTrack>>
    /\ UNCHANGED <<gridVars, roVars, recVars, infoVars>>

\* a tile below LayoutContextProvider dispatches clear_pin
clearPin ==
    /\ rerender
    /\ focusTrack # NoTrack
    /\ focusTrack' = NoTrack
    /\ pinBy' = "none"
    /\ UNCHANGED <<screenShareTracks, lastAutoFocusedScreenShareTrack>>
    /\ UNCHANGED <<gridVars, roVars, recVars, infoVars>>

\* Room.tsx lines 132-169: the effect after a render
autoFocusEffect ==
    /\ effectPending
    /\ LET r == autoFocus(screenShareTracks, lastAutoFocusedScreenShareTrack, focusTrack)
           u == updatedFocusTrack(focusTrack,
                                  {CameraTrack}
                                      \cup {RefOf(screenShareTracks[i]) :
                                                i \in 1..Len(screenShareTracks)})
       IN  /\ lastAutoFocusedScreenShareTrack' = r.last
           /\ focusTrack' = IF u # NoTrack THEN u ELSE r.pin
           /\ dispatched' = IF u # NoTrack /\ r.msg = "none" THEN "set_pin (updated)" ELSE r.msg
           /\ pinBy' = IF r.msg = "set_pin" THEN "auto"
                        ELSE IF r.msg = "clear_pin" THEN "none" ELSE pinBy
           /\ effectPending' = (r.msg # "none" \/ u # NoTrack)
    /\ pinByBefore' = pinBy
    /\ UNCHANGED screenShareTracks
    /\ UNCHANGED <<gridVars, roVars, recVars, infoVars>>

InitPin ==
    /\ GridInput([width |-> 0, height |-> 0], <<>>, NoLayout)
    /\ RoIdle
    /\ screenShareTracks = <<>>
    /\ focusTrack = NoTrack
    /\ lastAutoFocusedScreenShareTrack = NoTrack
    /\ effectPending = TRUE
    /\ pinBy = "none"
    /\ dispatched = "none"
    /\ pinByBefore = "none"
    /\ RecIdle
    /\ InfoIdle

NextPin ==
    \/ publishScreenShare
    \/ unpublishScreenShare
    \/ subscriptionChanged
    \/ setPin
    \/ clearPin
    \/ autoFocusEffect

SpecPin == InitPin /\ [][NextPin]_vars

\* the effect of a render eventually runs
SpecPinFair == SpecPin /\ WF_vars(autoFocusEffect)

(* ---- the recording effect of the egress composite template ---- *)

\* a plausible slip: recording starts without looking at the participants
hasTrack_always(sizes) == TRUE

\* GridLayout.tsx lines 176-182: some remote participant has p.tracks.size > 0
hasTrack(sizes) == \E p \in DOMAIN sizes : sizes[p] > 0

\* history: the room as it is, whatever the effect made of it
SomeRemoteHasTrack == \E p \in Remotes : tracksOf[p] > 0

\* a remote participant publishes a track
publishTrack ==
    /\ \E p \in Remotes :
           /\ tracksOf[p] < MaxPubs
           /\ tracksOf' = [tracksOf EXCEPT ![p] = @ + 1]
    /\ UNCHANGED <<subscribedOf, setupDone, onceListener, startRecordingCalls, startedBy,
                   hadTrack, subscribedEvents>>
    /\ UNCHANGED <<gridVars, roVars, pinVars, infoVars>>

\* a remote participant unpublishes a track, a subscribed one when all are subscribed
unpublishTrack ==
    /\ \E p \in Remotes :
           /\ tracksOf[p] > 0
           /\ tracksOf' = [tracksOf EXCEPT ![p] = @ - 1]
           /\ \E k \in {subscribedOf[p], subscribedOf[p] - 1} :
                  /\ k >= 0
                  /\ k <= tracksOf[p] - 1
                  /\ subscribedOf' = [subscribedOf EXCEPT ![p] = k]
    /\ UNCHANGED <<setupDone, onceListener, startRecordingCalls, startedBy, hadTrack,
                   subscribedEvents>>
    /\ UNCHANGED <<gridVars, roVars, pinVars, infoVars>>

\* RoomEvent.TrackSubscribed for a published track; GridLayout.tsx line 187: the
\* listener registered with room.once runs on the first event after the setup
trackSubscribed ==
    /\ \E p \in Remotes :
           /\ subscribedOf[p] < tracksOf[p]
           /\ subscribedOf' = [subscribedOf EXCEPT ![p] = @ + 1]
    /\ setupDone => subscribedEvents < MaxEvents
    /\ subscribedEvents' = IF setupDone THEN subscribedEvents + 1 ELSE subscribedEvents
    /\ IF onceListener
       THEN /\ startRecordingCalls' = startRecordingCalls + 1
            /\ startedBy' = "TrackSubscribed"
            /\ hadTrack' = SomeRemoteHasTrack
            /\ onceListener' = FALSE
       ELSE UNCHANGED <<startRecordingCalls, startedBy, hadTrack, onceListener>>
    /\ UNCHANGED <<tracksOf, setupDone>>
    /\ UNCHANGED <<gridVars, roVars, pinVars, infoVars>>

\* GridLayout.tsx lines 166-191: the effect on [room]
recordingEffect ==
    /\ ~setupDone
    /\ setupDone' = TRUE
    /\ IF hasTrack(tracksOf)
       THEN /\ startRecordingCalls' = startRecordingCalls + 1
            /\ startedBy' = "setup"
            /\ hadTrack' = SomeRemoteHasTrack
            /\ onceListener' = onceListener
       ELSE /\ onceListener' = TRUE
            /\ UNCHANGED <<startRecordingCalls, startedBy, hadTrack>>
    /\ UNCHANGED <<tracksOf, subscribedOf, subscribedEvents>>
    /\ UNCHANGED <<gridVars, roVars, pinVars, infoVars>>

\* the room before the template is mounted: participants may already have tracks
InitRecord ==
    /\ GridInput([width |-> 0, height |-> 0], <<>>, NoLayout)
    /\ RoIdle
    /\ PinIdle
    /\ RecIdle
    /\ InfoIdle

NextRecord == publishTrack \/ unpublishTrack \/ trackSubscribed \/ recordingEffect

SpecRecord == InitRecord /\ [][NextRecord]_vars

(* ---- RenderRoomInfo applied to every track list ---- *)

\* a TrackReferenceOrPlaceholder as far as RenderRoomInfo reads it; publication is
\* FALSE for a placeholder; trackSid tells the tracks of a list apart
InfoTrack(identity, source, kind, isMuted, trackName, publication) ==
    [identity |-> identity, source |-> source, kind |-> kind, isMuted |-> isMuted,
     trackName |-> trackName, publication |-> publication, trackSid |-> 0]

InfoShapes ==
    {InfoTrack(id, "camera", "video", m, n, TRUE) :
         id \in {"alice", "bob"}, m \in BOOLEAN, n \in {"canvas", "cam"}}
    \cup {InfoTrack("alice", "unknown", "video", FALSE, n, TRUE) : n \in {"canvas", "data"}}
    \cup {InfoTrack("alice", "screen_share", "video", FALSE, "screen", TRUE),
          InfoTrack("alice", "microphone", "audio", FALSE, "mic", TRUE),
          InfoTrack("alice", "screen_share_audio", "audio", TRUE, "screen", TRUE),
          InfoTrack("livekit-bridge", "camera", "video", FALSE, "cam", TRUE),
          InfoTrack("egress-service-1", "camera", "video", FALSE, "canvas", TRUE),
          InfoTrack("", "camera", "video", FALSE, "cam", TRUE),
          InfoTrack("alice", "camera", "video", FALSE, "cam", FALSE)}

Stamp(shapes) == [i \in 1..Len(shapes) |-> [shapes[i] EXCEPT !.trackSid = i]]

\* isTrackReference of @livekit/components-core: the reference has a publication
isTrackReference(track) == track.publication

\* String.prototype.startsWith("egress-service") over the identities of the model
startsWithEgressService(identity) == identity \in {"egress-service", "egress-service-1"}

\* Room.tsx lines 43-47
isUserTrack(track) ==
    /\ track.identity # ""
    /\ track.identity # "livekit-bridge"
    /\ ~startsWithEgressService(track.identity)

\* Room.tsx line 58
isVideoTrack(track) == track.source = "camera" /\ track.kind = "video" /\ ~track.isMuted

\* Room.tsx line 59
isScreenShareTrack(track) == isTrackReference(track) /\ track.source = "screen_share"

\* Room.tsx line 65: the sources pushed to participantTracks as they come
isPassedThrough(track) ==
    track.source \in {"microphone", "screen_share", "screen_share_audio"}

\* a plausible slip: a later track named "canvas" does not replace the stored one
replacesStored_never(has, trackName) == ~has

\* Room.tsx line 72: !participantVideoTracks.has(identity) || trackName === "canvas"
replacesStored(has, trackName) == ~has \/ trackName = "canvas"

\* Room.tsx lines 64-77: the loop over filteredTracks; keys is the insertion order of
\* the Map participantVideoTracks
RECURSIVE participantLoop(_, _, _)
participantLoop(filteredTracks, i, acc) ==
    IF i > Len(filteredTracks) THEN acc
    ELSE LET track == filteredTracks[i]
             has == track.identity \in DOMAIN acc.participantVideoTracks
         IN  IF isPassedThrough(track)
             THEN participantLoop(filteredTracks, i + 1,
                      [acc EXCEPT !.participantTracks = Append(@, track)])
             ELSE IF track.isMuted
             THEN participantLoop(filteredTracks, i + 1, acc)
             ELSE IF track.identity # "" /\ replacesStored(has, track.trackName)
             THEN participantLoop(filteredTracks, i + 1,
                      [acc EXCEPT !.participantVideoTracks =
                                      MapSet(@, track.identity, track),
                                  !.keys = IF has THEN @ ELSE Append(@, track.identity)])
             ELSE participantLoop(filteredTracks, i + 1, acc)

filterUserTrackReferences(track) == isTrackReference(track) /\ isUserTrack(track)

\* Room.tsx lines 56-88
RenderRoomInfo(trackList) ==
    LET filteredTracks == SelectSeq(trackList, filterUserTrackReferences)
        r == participantLoop(filteredTracks, 1,
                 [participantTracks |-> <<>>, participantVideoTracks |-> << >>,
                  keys |-> <<>>])
    IN  [visibleTracks |->
             r.participantTracks
                 \o [k \in 1..Len(r.keys) |-> r.participantVideoTracks[r.keys[k]]],
         totalParticipants |-> Len(r.keys),
         videoTracks |-> SelectSeq(filteredTracks, isVideoTrack),
         screenShareTracks |-> SelectSeq(filteredTracks, isScreenShareTrack)]

InitInfo ==
    /\ GridInput([width |-> 0, height |-> 0], <<>>, NoLayout)
    /\ RoIdle
    /\ PinIdle
    /\ RecIdle
    /\ infoPhase = "input"
    /\ allTracks \in {Stamp(shapes) : shapes \in SeqsUpTo(InfoShapes, MaxInfoLen)}
    /\ roomInfo = NoRoomInfo

\* Room.tsx line 105: RenderRoomInfo(allTracks) during the render
renderRoomInfo ==
    /\ infoPhase = "input"
    /\ infoPhase' = "rendered"
    /\ roomInfo' = RenderRoomInfo(allTracks)
    /\ UNCHANGED allTracks
    /\ UNCHANGED <<gridVars, roVars, pinVars, recVars>>

NextInfo == renderRoomInfo

SpecInfo == InitInfo /\ [][NextInfo]_vars

----------------------------------------------------------------------------
(* Properties *)

QualifyingNow == Qualifying(CUSTOM_GRID_LAYOUTS, size.width, size.height)

\* the largest capacity among the entries qualifying for the viewport (0 when none does)
QualifyingCapacity ==
    IF QualifyingNow = {} THEN 0
    ELSE LET i == CHOOSE i \in QualifyingNow : \A j \in QualifyingNow :
                      CUSTOM_GRID_LAYOUTS[i].maxTiles >= CUSTOM_GRID_LAYOUTS[j].maxTiles
         IN  CUSTOM_GRID_LAYOUTS[i].maxTiles

\* the selected layout qualifies, holds all tiles, and is the tightest such entry
TightestFit ==
    /\ \E i \in QualifyingNow : layout = CUSTOM_GRID_LAYOUTS[i]
    /\ layout.maxTiles >= Len(tracks)
    /\ ~\E j \in QualifyingNow :
           /\ CUSTOM_GRID_LAYOUTS[j].maxTiles >= Len(tracks)
           /\ CUSTOM_GRID_LAYOUTS[j].maxTiles < layout.maxTiles
    /\ (Len(tracks) = 0 => layout.name = "1x1")

\* C1 as stated: for every viewport and every tile count up to the largest qualifying
\* capacity, the selected layout is the tightest qualifying entry that holds all tiles,
\* and no tiles give the 1x1 entry.
C1_TightestFitEveryViewport ==
    (phase = "rendered" /\ Len(tracks) <= QualifyingCapacity) => TightestFit

\* C1 amended: the same, for every viewport whose measured width and height are both
\* greater than 0.
C1_TightestFitMeasuredViewport ==
    (phase = "rendered" /\ size.width > 0 /\ size.height > 0
        /\ Len(tracks) <= QualifyingCapacity) => TightestFit

C1_Witness ==
    /\ phase = "rendered"
    /\ size = [width |-> 700, height |-> 400]
    /\ Len(tracks) = 5
    /\ layout.name = "3x2"

\* the pages of the last render, page by page
PageOf(p) == GridLayoutPagination(layout, tracks, p).tracks
AllPages == [p \in 1..pagination.totalPageCount |-> PageOf(p - 1)]

\* the selected layout is the largest qualifying one and the overflow is on later pages
LargestWithOverflow ==
    /\ \E i \in QualifyingNow : layout = CUSTOM_GRID_LAYOUTS[i]
    /\ layout.maxTiles = QualifyingCapacity
    /\ pagination.totalPageCount >= 2
    /\ Len(pagination.tracks) = layout.maxTiles
    /\ Flatten(AllPages) = tracks

Scenario30 ==
    (size = [width |-> 1200, height |-> 800] /\ Len(tracks) = 30) =>
        /\ layout.name = "5x5"
        /\ layout.maxTiles = 25
        /\ pagination.totalPageCount = 2
        /\ Len(PageOf(0)) = 25
        /\ Len(PageOf(1)) = 5

\* C2 as stated: whenever the tile count exceeds every qualifying capacity, the largest
\* qualifying entry is selected and the remaining tiles are on later pages; 30 tiles at
\* 1200x800 give the 5x5 entry and pages of 25 and 5.
C2_LargestEveryViewport ==
    phase = "rendered" =>
        /\ (Len(tracks) > QualifyingCapacity => LargestWithOverflow)
        /\ Scenario30

\* C2 amended: the same, for every viewport whose measured width and height are both
\* greater than 0.
C2_LargestMeasuredViewport ==
    phase = "rendered" =>
        /\ (size.width > 0 /\ size.height > 0 /\ Len(tracks) > QualifyingCapacity
               => LargestWithOverflow)
        /\ Scenario30

C2_Witness ==
    /\ phase = "rendered"
    /\ size = [width |-> 1200, height |-> 800]
    /\ Len(tracks) = 30
    /\ layout.name = "5x5"
    /\ pagination.totalPageCount = 2

\* C3: at most one animation-frame callback is pending at any time, and one frame flush
\* invokes the callback of each subscriber at most once, however many entries for its
\* target were queued.
C3_OneFramePendingOneCallPerFlush ==
    /\ rafPending <= 1
    /\ (rafPending = 1) = ticking
    /\ \A c \in Consumers : calls[c] <= 1

C3_Witness ==
    /\ roOp = "flush"
    /\ \E t \in Targets :
           /\ queued[t] >= 2
           /\ \E c \in Consumers : sub[c] = t /\ calls[c] = 1

\* C4 as stated: when several notifications for one target are queued before a flush,
\* the size handed to the target's subscribers, and exposed by useSize, is the size of
\* the most recent of them.
C4_FlushDeliversLatest ==
    roOp = "flush" =>
        \A t \in Targets :
            delivered[t] # 0 =>
                /\ delivered[t] = latest[t]
                /\ \A c \in Consumers : sub[c] = t => consumerSize[c] = latest[t]

\* C5: a target is observed and has a registry entry exactly when some consumer is
\* still subscribed to it, and its entry lists exactly those consumers; after the last
\* one unsubscribes the target is unobserved and its entry is gone.
C5_ObservedIffSubscribed ==
    \A t \in Targets :
        LET subscribers == {c \in Consumers : sub[c] = t}
        IN  /\ (t \in observed) = (subscribers # {})
            /\ (t \in DOMAIN callbacks) = (subscribers # {})
            /\ t \in DOMAIN callbacks =>
                   /\ Range(callbacks[t]) = subscribers
                   /\ Len(callbacks[t]) = Cardinality(subscribers)

C5_Witness ==
    /\ roOp = "unmount"
    /\ \E c \in Consumers : didUnsubscribe[c] /\ ~mounted[c]
    /\ observed = {}
    /\ DOMAIN callbacks = {}

\* C6: for every track list and page size >= 1, the pages shown while walking from the
\* first page to the last, put one after the other, are exactly the track list.
C6_PagesPartitionTracks ==
    phase = "rendered" =>
        /\ Len(pages) = currentPage + 1
        /\ Len(Flatten(pages)) <= Len(tracks)
        /\ Flatten(pages) = SubSeq(tracks, 1, Len(Flatten(pages)))
        /\ (currentPage = pagination.totalPageCount - 1 => Flatten(pages) = tracks)

C6_Witness ==
    /\ phase = "rendered"
    /\ Len(tracks) = 3
    /\ layout.maxTiles = 2
    /\ currentPage = 1
    /\ pages = <<SubSeq(tracks, 1, 2), SubSeq(tracks, 3, 3)>>

\* C7: after any sequence of track changes, resizes and page navigations the current
\* page is within 0 .. totalPageCount - 1, and a recomputation that removes the
\* previous page moves the current page to the last page that is left.
C7_CurrentPageInRange ==
    /\ 0 <= currentPage
    /\ currentPage <= pagination.totalPageCount - 1
    /\ pagination.currentPage = currentPage
    /\ (lastOp \in {"setSize", "setDisplayedTracks"} =>
            currentPage = Min(pageBefore, pagination.totalPageCount - 1))

C7_Witness ==
    /\ lastOp = "setDisplayedTracks"
    /\ pageBefore > currentPage
    /\ currentPage = pagination.totalPageCount - 1

\* C8: a left swipe (nextPage) on the last page and a right swipe (prevPage) on page 0
\* leave the pagination state unchanged; otherwise they move the current page by
\* exactly +1 and -1.
C8_NavigationClamps ==
    [][ /\ (lastOp' = "leftSwipe" =>
               IF currentPage = pagination.totalPageCount - 1
               THEN currentPage' = currentPage /\ pagination' = pagination
               ELSE currentPage' = currentPage + 1)
        /\ (lastOp' = "rightSwipe" =>
               IF currentPage = 0
               THEN currentPage' = currentPage /\ pagination' = pagination
               ELSE currentPage' = currentPage - 1) ]_vars

C8_Witness ==
    /\ lastOp = "leftSwipe"
    /\ pagination.totalPageCount > 1
    /\ pageBefore = pagination.totalPageCount - 1
    /\ currentPage = pageBefore

\* C9: the page count is the least k >= 1 with k * maxTiles >= len(tracks); an empty
\* track list gives one page with no tracks on it.
C9_TotalPageCount ==
    phase = "rendered" =>
        /\ pagination.totalPageCount >= 1
        /\ pagination.totalPageCount * layout.maxTiles >= Len(tracks)
        /\ (pagination.totalPageCount > 1 =>
                (pagination.totalPageCount - 1) * layout.maxTiles < Len(tracks))
        /\ (tracks = <<>> =>
                /\ pagination.totalPageCount = 1
                /\ pagination.tracks = <<>>
                /\ visible = <<>>)

C9_Witness ==
    /\ phase = "rendered"
    /\ tracks = <<>>
    /\ layout.maxTiles = 3
    /\ pagination.totalPageCount = 1
    /\ visible = <<>>

\* C10: useGridLayout always returns an entry of the catalog, and the first entry, the
\* 1x1 layout, when the measured width or height is 0 or no entry qualifies by size.
C10_AlwaysACatalogEntry ==
    phase = "rendered" =>
        /\ layout \in Range(CUSTOM_GRID_LAYOUTS)
        /\ (size.width = 0 \/ size.height = 0 \/ QualifyingNow = {} =>
                layout = CUSTOM_GRID_LAYOUTS[1] /\ layout.name = "1x1")

C10_Witness ==
    /\ phase = "rendered"
    /\ size = [width |-> 0, height |-> 800]
    /\ Len(tracks) = 5
    /\ layout.name = "1x1"

\* C11: with the viewport held fixed, a larger tile count never selects a layout of
\* smaller capacity.
C11_SelectionMonotonic ==
    [][ (phase = "rendered" /\ size' = size /\ Len(tracks') >= Len(tracks)) =>
            layout'.maxTiles >= layout.maxTiles ]_vars

C11_Witness ==
    /\ lastOp = "addTrack"
    /\ size = [width |-> 700, height |-> 400]
    /\ Len(tracks) = 7
    /\ layout.name = "4x2"

Scenario500x400 ==
    /\ phase = "rendered"
    /\ size = [width |-> 500, height |-> 400]
    /\ Len(tracks) = 5

\* C13 as stated: at 500x400 with 5 tiles the selected layout has minWidth <= 500 and
\* maxTiles >= 5, and pagination gives exactly one page holding all 5 tracks.
C13_OnePageAt500x400 ==
    Scenario500x400 =>
        /\ layout.minWidth <= 500
        /\ layout.maxTiles >= 5
        /\ pagination.totalPageCount = 1
        /\ pagination.tracks = tracks

\* C13 amended: at 500x400 with 5 tiles the selected layout has minWidth <= 500 and is
\* the largest qualifying entry, of capacity 2, and pagination gives 3 pages of 2, 2
\* and 1 tracks that together hold all 5 tracks.
C13_ThreePagesAt500x400 ==
    Scenario500x400 =>
        /\ layout.minWidth <= 500
        /\ layout.maxTiles = 2
        /\ layout.maxTiles = QualifyingCapacity
        /\ pagination.totalPageCount = 3
        /\ <<Len(PageOf(0)), Len(PageOf(1)), Len(PageOf(2))>> = <<2, 2, 1>>
        /\ Flatten(AllPages) = tracks

C13_Witness ==
    /\ Scenario500x400
    /\ layout.name = "1x2"
    /\ pagination.totalPageCount = 3

\* C14: once the layout effect has run with the container present, the visible page
\* holds at most maxTiles tracks of the selected layout, and maxTiles is the product of
\* the published column and row counts.
C14_VisiblePageFitsLayout ==
    gridEl =>
        /\ Len(visible) <= layout.maxTiles
        /\ visible = pagination.tracks
        /\ layout.maxTiles = style.colCount * style.rowCount

C14_Witness ==
    /\ gridEl
    /\ lastOp = "leftSwipe"
    /\ size.width = 700
    /\ Len(tracks) > layout.maxTiles
    /\ Len(visible) = layout.maxTiles
    /\ style = [colCount |-> layout.columns, rowCount |-> layout.rows]

\* C15: with the container ref unset when the effects run, nothing is subscribed or
\* observed, the size stays {0, 0}, the layout is the first catalog entry, no style
\* hints are written, and no later step changes any of this.
C15_UnsetContainerIsNoOp ==
    ~gridEl =>
        /\ observed = {}
        /\ DOMAIN callbacks = {}
        /\ sub[GridConsumer] = 0
        /\ rafPending = 0
        /\ size = [width |-> 0, height |-> 0]
        /\ layout = CUSTOM_GRID_LAYOUTS[1]
        /\ style = NoStyle

C15_Witness ==
    /\ ~gridEl
    /\ lastOp = "setDisplayedTracks"
    /\ Len(tracks) = 5
    /\ layout.name = "1x1"
    /\ style = NoStyle

NonDecreasing(caps) == \A i \in 1..(Len(caps) - 1) : caps[i] <= caps[i + 1]
CustomCapacities == [i \in DOMAIN CUSTOM_GRID_LAYOUTS |-> CUSTOM_GRID_LAYOUTS[i].maxTiles]
JktpCapacities ==
    [i \in DOMAIN JKTP_GRID_LAYOUTS |-> JKTP_GRID_LAYOUTS[i].columns * JKTP_GRID_LAYOUTS[i].rows]

\* C17: both catalogs are ordered by non-decreasing capacity; every entry of
\* CUSTOM_GRID_LAYOUTS has 1 <= minTiles <= maxTiles = columns x rows; the tile ranges
\* cover 1..25 without a gap, so every rendered track count in that range lies in the
\* range of some entry, and the rendered layout is an entry with these properties.
C17_CatalogsOrderedAndCovering ==
    /\ NonDecreasing(CustomCapacities)
    /\ NonDecreasing(JktpCapacities)
    /\ \A i \in DOMAIN CUSTOM_GRID_LAYOUTS :
          LET e == CUSTOM_GRID_LAYOUTS[i]
          IN  1 <= e.minTiles /\ e.minTiles <= e.maxTiles /\ e.maxTiles = e.columns * e.rows
    /\ CUSTOM_GRID_LAYOUTS[Len(CUSTOM_GRID_LAYOUTS)].maxTiles = 25
    /\ \A n \in 1..25 :
          \E i \in DOMAIN CUSTOM_GRID_LAYOUTS :
              CUSTOM_GRID_LAYOUTS[i].minTiles <= n /\ n <= CUSTOM_GRID_LAYOUTS[i].maxTiles
    /\ phase = "rendered" =>
          /\ 1 <= layout.minTiles
          /\ layout.minTiles <= layout.maxTiles
          /\ layout.maxTiles = layout.columns * layout.rows

C17_Witness ==
    /\ phase = "rendered"
    /\ Len(tracks) = 25
    /\ size.width = 1100
    /\ layout.name = "5x5"
    /\ layout.minTiles = 21

\* C18: in a flush, a consumer's callback runs only for the target it is subscribed to
\* at that moment: a consumer whose cleanup has run is not invoked and keeps its size,
\* also when entries for its former target are still queued, while every subscriber of
\* another queued target is invoked once by the same flush.
C18_NoCallbackAfterCleanup ==
    [][ rafPending' < rafPending =>
            \A c \in Consumers :
                IF sub[c] # 0 /\ countOf(allEntries, sub[c]) >= 1
                THEN calls'[c] = 1 /\ consumerSize'[c] # 0
                ELSE calls'[c] = 0 /\ consumerSize'[c] = consumerSize[c] ]_vars

C18_Witness ==
    /\ roOp = "flush"
    /\ \E c \in Consumers, d \in Consumers :
           /\ ~mounted[c]
           /\ didUnsubscribe[c]
           /\ unsubFrom[c] # 0
           /\ unsubFrom[c] \notin observed
           /\ queued[unsubFrom[c]] >= 1
           /\ calls[c] = 0
           /\ consumerSize[c] = 0
           /\ d # c
           /\ sub[d] # 0
           /\ sub[d] # unsubFrom[c]
           /\ calls[d] = 1
           /\ delivered[sub[d]] # 0

\* C19: if every requested animation frame eventually runs, each queued notification
\* for a target leads to a flush that had it in its queue and, when the target has a
\* subscriber at that flush, delivered an entry for it; a non-empty queue always has a
\* frame pending; after a flush the queue is empty and the pending flag is cleared; a
\* notification arriving with the flag cleared requests a new frame.
C19_NoUpdateLost ==
    /\ \A t \in Targets :
          (countOf(allEntries, t) >= 1) ~>
              (/\ roOp = "flush"
               /\ queued[t] >= 1
               /\ (t \in DOMAIN callbacks => delivered[t] # 0))
    /\ [](allEntries # <<>> => ticking /\ rafPending >= 1)
    /\ [](roOp = "flush" => allEntries = <<>> /\ ~ticking)
    /\ [][ (Len(allEntries') > Len(allEntries) /\ ~ticking) =>
              (rafPending' = rafPending + 1 /\ ticking') ]_vars

C19_Witness ==
    /\ roOp = "flush"
    /\ allEntries = <<>>
    /\ ~ticking
    /\ rafPending = 0
    /\ \E t \in Targets :
           /\ queued[t] >= 2
           /\ t \in DOMAIN callbacks
           /\ delivered[t] # 0

\* C20: the effect dispatches the automatic set_pin only when a subscribed screen share
\* is published and the pin it replaces was not set explicitly.
C20_AutoPinKeepsExplicitPin ==
    dispatched = "set_pin" =>
        /\ someSubscribed(screenShareTracks)
        /\ pinByBefore # "explicit"

AutoFocusedGone ==
    /\ lastAutoFocusedScreenShareTrack # NoTrack
    /\ lastAutoFocusedScreenShareTrack.trackSid \notin SidsOf(screenShareTracks)

\* the run of the effect that is pending clears the pin and resets the tracker when the
\* auto-focused track is gone, and dispatches no clear_pin while it is still published
EffectClearsOnlyWhenGone ==
    [][ effectPending =>
          /\ AutoFocusedGone =>
                /\ dispatched' = "clear_pin"
                /\ focusTrack' = NoTrack
                /\ lastAutoFocusedScreenShareTrack' = NoTrack
          /\ ~AutoFocusedGone => dispatched' # "clear_pin" ]_vars

ClearedWhenGone ==
    AutoFocusedGone ~>
        (/\ dispatched = "clear_pin"
         /\ focusTrack = NoTrack
         /\ lastAutoFocusedScreenShareTrack = NoTrack)

\* C22 as stated: after the reset, a subscribed screen share that is present is
\* eventually the auto-pinned track.
C22_SubscribedShareAutoPinned ==
    /\ EffectClearsOnlyWhenGone
    /\ ClearedWhenGone
    /\ (someSubscribed(screenShareTracks) /\ lastAutoFocusedScreenShareTrack = NoTrack) ~>
          (/\ dispatched = "set_pin"
           /\ \E i \in 1..Len(screenShareTracks) :
                  /\ screenShareTracks[i].isSubscribed
                  /\ focusTrack = RefOf(screenShareTracks[i]))

\* C22: when the auto-focused track is gone the effect clears the pin and resets the
\* tracker, and it dispatches no clear_pin while that track is still published; with
\* the tracker reset and some subscribed screen share present, the effect eventually
\* auto-pins the first screen share of the list, subscribed or not, and tracks it.
C22_FirstShareAutoPinned ==
    /\ EffectClearsOnlyWhenGone
    /\ ClearedWhenGone
    /\ (someSubscribed(screenShareTracks) /\ lastAutoFocusedScreenShareTrack = NoTrack) ~>
          (/\ dispatched = "set_pin"
           /\ pinBy = "auto"
           /\ focusTrack = RefOf(screenShareTracks[1])
           /\ lastAutoFocusedScreenShareTrack = focusTrack)

C22_Witness ==
    /\ dispatched = "clear_pin"
    /\ focusTrack = NoTrack
    /\ lastAutoFocusedScreenShareTrack = NoTrack
    /\ effectPending
    /\ Len(screenShareTracks) = 2
    /\ ~screenShareTracks[1].isSubscribed
    /\ screenShareTracks[2].isSubscribed

\* the entries of visibleTracks that are not microphone, screen-share or screen-share
\* audio tracks
PerParticipant ==
    {i \in 1..Len(roomInfo.visibleTracks) :
         roomInfo.visibleTracks[i].source
             \notin {"microphone", "screen_share", "screen_share_audio"}}

\* positions in the input of the unmuted tracks of that kind of one participant
UnmutedOf(identity) ==
    {i \in 1..Len(allTracks) :
         /\ allTracks[i].identity = identity
         /\ allTracks[i].publication
         /\ ~allTracks[i].isMuted
         /\ allTracks[i].source \notin {"microphone", "screen_share", "screen_share_audio"}}

CanvasOf(identity) == {i \in UnmutedOf(identity) : allTracks[i].trackName = "canvas"}

\* C23: visibleTracks holds at most one track per identity that is not a microphone or
\* screen-share (video or audio) track; it is unmuted, and it is the last unmuted track
\* of the participant named "canvas" if there is one, else the participant's first
\* unmuted such track; totalParticipants is the number of these tracks.
C23_OneTrackPerParticipant ==
    infoPhase = "rendered" =>
        /\ \A i \in PerParticipant, j \in PerParticipant :
               roomInfo.visibleTracks[i].identity = roomInfo.visibleTracks[j].identity
                   => i = j
        /\ \A i \in PerParticipant :
               LET t == roomInfo.visibleTracks[i]
                   unmuted == UnmutedOf(t.identity)
                   canvas == CanvasOf(t.identity)
               IN  /\ ~t.isMuted
                   /\ unmuted # {}
                   /\ IF canvas # {}
                      THEN t = allTracks[CHOOSE c \in canvas : \A d \in canvas : d <= c]
                      ELSE t = allTracks[CHOOSE u \in unmuted : \A d \in unmuted : u <= d]
        /\ roomInfo.totalParticipants = Cardinality(PerParticipant)

C23_Witness ==
    /\ infoPhase = "rendered"
    /\ Len(allTracks) = 3
    /\ \A i \in 1..3 : allTracks[i].identity = "alice" /\ ~allTracks[i].isMuted
    /\ allTracks[1].trackName = "cam" /\ allTracks[1].publication
    /\ allTracks[2].trackName = "canvas" /\ allTracks[2].source = "camera"
    /\ allTracks[3].trackName = "canvas" /\ allTracks[3].source = "unknown"
    /\ roomInfo.visibleTracks = <<allTracks[3]>>
    /\ roomInfo.totalParticipants = 1

====
